---- MODULE Spec2Model ----
(***************************************************************************)
(* Model of src/main.py: the policy gate, the free-text field extractor    *)
(* and the step-based dialogue engine of the dental-practice chat backend. *)
(*                                                                         *)
(* Python strings are TLA+ strings; the operators below compute lower(),   *)
(* strip(), `in`, split(sep, 1) and the digit filter character by          *)
(* character, as the interpreter does.  An Optional[str] is << >> for None *)
(* and <<s>> for the string s.  The non-ASCII punctuation of the reply     *)
(* literals (typographic apostrophe, em dash, curly quotes) is written     *)
(* with its ASCII counterpart.                                             *)
(***************************************************************************)
EXTENDS Integers, Sequences, FiniteSets, TLC

\* One dialogue: the SessionState object, the last call of next_reply on it.
VARIABLES state, reply, raised, user_text, practice_name, prior, prior_reply

\* The web layer: the session store, the SessionState objects it and the
\* running requests refer to, the request each worker thread is handling,
\* the HTTP response the last step sent (None when it sent none), and the
\* number of messages received.
VARIABLES SESSION_DB, heap, threads, response, received

dialogue_vars == <<state, reply, raised, user_text, practice_name, prior, prior_reply>>

web_vars == <<SESSION_DB, heap, threads, response, received>>

vars == <<dialogue_vars, web_vars>>

(***************************************************************************)
(* Optional values                                                         *)
(***************************************************************************)
None == << >>

Some(s) == <<s>>

Val(o) == o[1]

\* Python truthiness of an Optional[str]: None and "" are falsy.
Truthy(o) == o # None /\ Val(o) # ""

(***************************************************************************)
(* String primitives                                                       *)
(***************************************************************************)
Char(s, i) == SubSeq(s, i, i)

UpperToLower ==
    [c \in {"A","B","C","D","E","F","G","H","I","J","K","L","M",
            "N","O","P","Q","R","S","T","U","V","W","X","Y","Z"} |->
        CASE c = "A" -> "a" [] c = "B" -> "b" [] c = "C" -> "c" [] c = "D" -> "d"
          [] c = "E" -> "e" [] c = "F" -> "f" [] c = "G" -> "g" [] c = "H" -> "h"
          [] c = "I" -> "i" [] c = "J" -> "j" [] c = "K" -> "k" [] c = "L" -> "l"
          [] c = "M" -> "m" [] c = "N" -> "n" [] c = "O" -> "o" [] c = "P" -> "p"
          [] c = "Q" -> "q" [] c = "R" -> "r" [] c = "S" -> "s" [] c = "T" -> "t"
          [] c = "U" -> "u" [] c = "V" -> "v" [] c = "W" -> "w" [] c = "X" -> "x"
          [] c = "Y" -> "y" [] c = "Z" -> "z"]

LowerChar(c) == IF c \in DOMAIN UpperToLower THEN UpperToLower[c] ELSE c

RECURSIVE LowerFrom(_, _)
LowerFrom(s, i) ==
    IF i > Len(s) THEN "" ELSE LowerChar(Char(s, i)) \o LowerFrom(s, i + 1)

\* str.lower()
Lower(s) == LowerFrom(s, 1)

IsSpace(c) == c \in {" ", "\t", "\n", "\r"}

IsDigit(c) == c \in {"0","1","2","3","4","5","6","7","8","9"}

RECURSIVE FirstNonSpace(_, _)
FirstNonSpace(s, i) ==
    IF i <= Len(s) /\ IsSpace(Char(s, i)) THEN FirstNonSpace(s, i + 1) ELSE i

RECURSIVE LastNonSpace(_, _)
LastNonSpace(s, i) ==
    IF i >= 1 /\ IsSpace(Char(s, i)) THEN LastNonSpace(s, i - 1) ELSE i

\* str.strip()
Strip(s) ==
    LET lo == FirstNonSpace(s, 1)
        hi == LastNonSpace(s, Len(s))
    IN  IF lo > hi THEN "" ELSE SubSeq(s, lo, hi)

RECURSIVE FindFrom(_, _, _)
\* The first position >= i at which sub occurs in s, 0 when there is none.
FindFrom(sub, s, i) ==
    IF i + Len(sub) - 1 > Len(s) THEN 0
    ELSE IF SubSeq(s, i, i + Len(sub) - 1) = sub THEN i
    ELSE FindFrom(sub, s, i + 1)

\* sub in s
Contains(sub, s) ==
    \E i \in 1..(Len(s) - Len(sub) + 1) : SubSeq(s, i, i + Len(sub) - 1) = sub

\* s.split(sep, 1): the one-element list [s] when sep does not occur in s.
Split1(s, sep) ==
    LET i == FindFrom(sep, s, 1)
    IN  IF i = 0 THEN <<s>>
        ELSE <<SubSeq(s, 1, i - 1), SubSeq(s, i + Len(sep), Len(s))>>

\* s[:n]
Prefix(s, n) == IF Len(s) <= n THEN s ELSE SubSeq(s, 1, n)

RECURSIVE DigitsFrom(_, _)
\* "".join(ch for ch in s if ch.isdigit() or ch == "+"), from position i on
DigitsFrom(s, i) ==
    IF i > Len(s) THEN ""
    ELSE (IF IsDigit(Char(s, i)) \/ Char(s, i) = "+" THEN Char(s, i) ELSE "")
         \o DigitsFrom(s, i + 1)

RECURSIVE RemoveFrom(_, _, _)
\* s.replace(c, "") for a one-character c, from position i on
RemoveFrom(s, c, i) ==
    IF i > Len(s) THEN ""
    ELSE (IF Char(s, i) = c THEN "" ELSE Char(s, i)) \o RemoveFrom(s, c, i + 1)

RECURSIVE Join(_, _)
\* sep.join(list)
Join(sep, list) ==
    IF list = << >> THEN ""
    ELSE IF Len(list) = 1 THEN list[1]
    ELSE list[1] \o sep \o Join(sep, Tail(list))

(***************************************************************************)
(* Data model                                                              *)
(***************************************************************************)
Step == {"LIMITED_RESPONSE", "COLLECT_CONTACT", "HANDOFF"}

Collected == [name |-> None, phone |-> None, best_time |-> None]

SessionState ==
    [step |-> "LIMITED_RESPONSE", procedure |-> None, intent |-> None,
     collected |-> Collected]

(***************************************************************************)
(* Inputs                                                                  *)
(***************************************************************************)
practice_names == {"Example Dental Clinic", "Smile Co"}

LongName ==
    "abcdefghijklmnopqrstuvwxyz abcdefghijklmnopqrstuvwxyz abcdefghijklmnopqrstuvwxyz abcd"

user_texts ==
    { "Should I take ibuprofen?",
      "I'm John, my number is 555000111, evening works",
      "My name is Ana, my phone is +1 555 123 4567, anytime is fine",
      "i'm john, my number is 555000111, evening works",
      "my name is zed; ring 999888777 today",
      "  i am bo and , co \n",
      "i am x",
      "i am , bob",
      "call +44 20 7946 0958",
      "ring 12345 in the Afternoon",
      "tomorrow morning",
      "hello",
      "ANTIBIOTICS? i am sam, 555000111 this evening",
      "i am " \o LongName }

\* Messages for the policy gate: words of the keyword list and near misses,
\* in several letter cases, alone and inside longer words and sentences.
gate_words ==
    { "antibiotics", "ANTIBIOTICS", "AntiBiotics", "Antibiotic", "amoxicillin",
      "Penicillin", "CLINDAMYCIN", "medicine", "MEDICATION", "Dose", "dosage",
      "take", "TAKE", "should i", "Should I", "ibuprofen", "IBUPROFEN",
      "painkiller", "Prescription",
      "antibiotc", "anti biotics", "tak", "dos", "shouldi", "should  I",
      "medic", "pain killer", "prescribe", "cleaning", "" }

gate_prefixes == {"", "mis", "is it "}

gate_suffixes == {"", "ish", " ok?"}

gate_texts ==
    { pre \o word \o post :
        pre \in gate_prefixes, word \in gate_words, post \in gate_suffixes }

all_texts == user_texts \cup gate_texts

(***************************************************************************)
(* Policy layer                                                            *)
(***************************************************************************)
keywords ==
    <<"antibiotic", "antibiotics", "amoxicillin", "penicillin", "clindamycin",
      "medicine", "medication", "dose", "dosage", "take", "should i",
      "ibuprofen", "painkiller", "prescription">>

\* keyword_match without text.lower().
keyword_match_as_typed(text) ==
    \E k \in 1..Len(keywords) : Contains(keywords[k], text)

\* t = text.lower(); any(k in t for k in keywords)
keyword_match(text) ==
    LET t == Lower(text)
    IN  \E k \in 1..Len(keywords) : Contains(keywords[k], t)

\* The classification of each input text, computed once.
gate_table == [text \in all_texts |-> keyword_match(text)]

is_medical_or_medication_question(text) ==
    IF text \in all_texts THEN gate_table[text] ELSE keyword_match(text)

limited_response_policy(practice, user_text_) ==
    "Thanks for your question. I can't recommend specific medication (including antibiotics) "
    \o "without a clinician evaluating your situation.\n\n"
    \o "If you have severe swelling, fever, trouble swallowing/breathing, or rapidly worsening pain, "
    \o "please seek urgent care immediately.\n\n"
    \o "If not urgent: the safest next step is to speak with a dentist from "
    \o practice \o " for proper guidance. "
    \o "Can I take your **name** and **phone number**, and the **best time** to call you back?"

(***************************************************************************)
(* Field extraction                                                        *)
(***************************************************************************)
time_phrases == <<"morning", "afternoon", "evening", "today", "tomorrow", "anytime">>

name_patterns == <<"my name is ", "i am ", "i'm ">>

name_stops == <<".", ",", ";", " and ">>

MinPhoneDigits == 9

MinNameLen == 2

MaxNameLen == 80

RECURSIVE stop_at(_, _)
\* for stop in [...]: if stop in name: name = name.split(stop, 1)[0].strip()
stop_at(name, stops) ==
    IF stops = << >> THEN name
    ELSE stop_at(IF Contains(stops[1], name)
                    THEN Strip(Split1(name, stops[1])[1])
                    ELSE name,
                 Tail(stops))

\* The name block of update_collected_from_text, run on a state whose name
\* is still None: the resulting name field and the exception raised, if any.
extract_name(text) ==
    LET t     == Lower(text)
        found == {k \in 1..Len(name_patterns) : Contains(name_patterns[k], t)}
    IN  IF found = {} THEN [name |-> None, raised |-> "none"]
        ELSE LET k     == CHOOSE i \in found : \A j \in found : i <= j
                 parts == Split1(text, name_patterns[k])
             IN  IF Len(parts) < 2
                    THEN [name |-> None, raised |-> "IndexError"]
                    ELSE LET name == Strip(parts[2])
                         IN  IF Len(name) >= MinNameLen
                                THEN [name   |-> Some(Prefix(stop_at(name, name_stops), MaxNameLen)),
                                      raised |-> "none"]
                                ELSE [name |-> None, raised |-> "none"]

\* What update_collected_from_text reads off the text alone: the stripped
\* text, the digit string and its digit count, whether a time phrase occurs,
\* and the outcome of the name block.
scan_text(user_text_) ==
    LET text   == Strip(user_text_)
        digits == DigitsFrom(text, 1)
        t      == Lower(text)
    IN  [text     |-> text,
         digits   |-> digits,
         ndigits  |-> Len(RemoveFrom(digits, "+", 1)),
         has_time |-> \E k \in 1..Len(time_phrases) : Contains(time_phrases[k], t),
         name     |-> extract_name(text)]

\* The scan of each input text, computed once.
scan_table == [text \in all_texts |-> scan_text(text)]

scan(user_text_) ==
    IF user_text_ \in all_texts THEN scan_table[user_text_] ELSE scan_text(user_text_)

\* write_phone without the test that the phone is still unset.
write_phone_overwrite(st, sc) ==
    IF sc.ndigits >= MinPhoneDigits
       THEN [st EXCEPT !.collected.phone = Some(sc.digits)]
       ELSE st

\* if len(digits.replace("+", "")) >= 9 and state.collected.phone is None: ...
write_phone(st, sc) ==
    IF sc.ndigits >= MinPhoneDigits /\ st.collected.phone = None
       THEN [st EXCEPT !.collected.phone = Some(sc.digits)]
       ELSE st

\* if state.collected.best_time is None and any(x in t for x in [...]): ...
write_best_time(st, sc) ==
    IF st.collected.best_time = None /\ sc.has_time
       THEN [st EXCEPT !.collected.best_time = Some(sc.text)]
       ELSE st

\* if state.collected.name is None: ...
write_name(st, sc) ==
    IF st.collected.name = None
       THEN [state  |-> [st EXCEPT !.collected.name = sc.name.name],
             raised |-> sc.name.raised]
       ELSE [state |-> st, raised |-> "none"]

\* The state object as the call leaves it and the exception raised, if any.
\* The object is mutated in place, so the writes made before an exception
\* are kept in the object the caller holds.
write_fields(st, sc) == write_name(write_best_time(write_phone(st, sc), sc), sc)

update_collected_from_text(st, user_text_) == write_fields(st, scan(user_text_))

(***************************************************************************)
(* Dialogue engine                                                         *)
(***************************************************************************)
\* list.<method>(arg): a Python list has append, and no attribute `end'.
list_call(list, method, arg) ==
    IF method = "append"
       THEN [list |-> Append(list, arg), raised |-> "none"]
       ELSE [list |-> list, raised |-> "AttributeError"]

\* end_if_empty testing `is None' in place of the truthiness of the field.
end_if_none(m, field, label) ==
    IF m.raised # "none" THEN m
    ELSE IF field = None THEN list_call(m.list, "end", label)
    ELSE m

\* if not state.collected.<field>: missing.end(<label>), skipped once an
\* earlier statement has raised
end_if_empty(m, field, label) ==
    IF m.raised # "none" THEN m
    ELSE IF ~Truthy(field) THEN list_call(m.list, "end", label)
    ELSE m

\* missing = [] and the three tests that follow it
compute_missing(st) ==
    end_if_empty(
        end_if_empty(
            end_if_empty([list |-> << >>, raised |-> "none"],
                         st.collected.name, "name"),
            st.collected.phone, "phone number"),
        st.collected.best_time, "best time to call")

collect_reply(missing) ==
    "Got it - to arrange a callback, I still need your " \o Join(", ", missing) \o ". "
    \o "You can reply in one message like: \"My name is ..., my phone is ..., best time is ...\"."

still_missing_reply(missing) ==
    "Thanks - I'm still missing: " \o Join(", ", missing) \o "."

captured_reply(practice, st) ==
    "Thanks, " \o Val(st.collected.name) \o ". I've captured your details.\n\n"
    \o "**Phone:** " \o Val(st.collected.phone) \o "\n"
    \o "**Best time:** " \o Val(st.collected.best_time) \o "\n\n"
    \o "Someone from " \o practice \o " will contact you. If your symptoms worsen (swelling, fever, "
    \o "trouble swallowing/breathing), please seek urgent care."

perfect_reply(st) ==
    "Perfect - thanks, " \o Val(st.collected.name) \o ". We'll call "
    \o Val(st.collected.phone) \o " (" \o Val(st.collected.best_time) \o ")."

with_team_reply(practice) ==
    "Thanks - your request is with the team at " \o practice \o ". "
    \o "If anything changes urgently, please seek immediate care."

\* The result of one call is the reply returned (None when the call
\* raised), the state object as the call left it, and the exception raised.

\* A call that raised returns no reply and leaves the object as it was when
\* the exception was raised.
raise(st, exception) == [reply |-> None, state |-> st, raised |-> exception]

\* if missing: ... return reply, state / state.step = Step.HANDOFF ... (182-200)
limited_response_result(practice, st, m) ==
    IF m.raised # "none" THEN raise(st, m.raised)
    ELSE IF m.list # << >>
       THEN [reply  |-> Some(collect_reply(m.list)),
             state  |-> [st EXCEPT !.step = "COLLECT_CONTACT"],
             raised |-> "none"]
    ELSE [reply  |-> Some(captured_reply(practice, st)),
          state  |-> [st EXCEPT !.step = "HANDOFF"],
          raised |-> "none"]

\* collect_contact_result without the assignment state.step = Step.HANDOFF.
collect_contact_result_no_handoff(st, m) ==
    IF m.raised # "none" THEN raise(st, m.raised)
    ELSE IF m.list # << >>
       THEN [reply  |-> Some(still_missing_reply(m.list)),
             state  |-> st,
             raised |-> "none"]
    ELSE [reply  |-> Some(perfect_reply(st)),
          state  |-> st,
          raised |-> "none"]

\* if missing: return ... / state.step = Step.HANDOFF ... (213-224)
collect_contact_result(st, m) ==
    IF m.raised # "none" THEN raise(st, m.raised)
    ELSE IF m.list # << >>
       THEN [reply  |-> Some(still_missing_reply(m.list)),
             state  |-> st,
             raised |-> "none"]
    ELSE [reply  |-> Some(perfect_reply(st)),
          state  |-> [st EXCEPT !.step = "HANDOFF"],
          raised |-> "none"]

\* The statements after state = update_collected_from_text(state, user_text)
limited_response_after(practice, u) ==
    IF u.raised # "none" THEN raise(u.state, u.raised)
    ELSE limited_response_result(practice, u.state, compute_missing(u.state))

collect_contact_after(u) ==
    IF u.raised # "none" THEN raise(u.state, u.raised)
    ELSE collect_contact_result(u.state, compute_missing(u.state))

\* if state.step == Step.LIMITED_RESPONSE: ...
limited_response_branch(practice, user_text_, st) ==
    limited_response_after(practice, update_collected_from_text(st, user_text_))

\* if state.step == Step.COLLECT_CONTACT: ...
collect_contact_branch(user_text_, st) ==
    collect_contact_after(update_collected_from_text(st, user_text_))

\* next_reply with the HANDOFF fallback tested before the policy gate.
next_reply_handoff_first(practice, user_text_, st) ==
    IF st.step = "HANDOFF"
       THEN [reply  |-> Some(with_team_reply(practice)),
             state  |-> st,
             raised |-> "none"]
    ELSE IF is_medical_or_medication_question(user_text_)
       THEN [reply  |-> Some(limited_response_policy(practice, user_text_)),
             state  |-> [st EXCEPT !.step = "LIMITED_RESPONSE"],
             raised |-> "none"]
    ELSE IF st.step = "LIMITED_RESPONSE"
       THEN limited_response_branch(practice, user_text_, st)
    ELSE collect_contact_branch(user_text_, st)

\* next_reply whose COLLECT_CONTACT test is the final else branch.
next_reply_collect_else(practice, user_text_, st) ==
    IF is_medical_or_medication_question(user_text_)
       THEN [reply  |-> Some(limited_response_policy(practice, user_text_)),
             state  |-> [st EXCEPT !.step = "LIMITED_RESPONSE"],
             raised |-> "none"]
    ELSE IF st.step = "LIMITED_RESPONSE"
       THEN limited_response_branch(practice, user_text_, st)
    ELSE collect_contact_branch(user_text_, st)

\* next_reply that runs the extractor before the policy gate.
next_reply_extract_first(practice, user_text_, st) ==
    IF is_medical_or_medication_question(user_text_)
       THEN [reply  |-> Some(limited_response_policy(practice, user_text_)),
             state  |-> [update_collected_from_text(st, user_text_).state
                            EXCEPT !.step = "LIMITED_RESPONSE"],
             raised |-> "none"]
    ELSE IF st.step = "LIMITED_RESPONSE"
       THEN limited_response_branch(practice, user_text_, st)
    ELSE IF st.step = "COLLECT_CONTACT"
       THEN collect_contact_branch(user_text_, st)
    ELSE [reply  |-> Some(with_team_reply(practice)),
          state  |-> st,
          raised |-> "none"]

next_reply(practice, user_text_, st) ==
    IF is_medical_or_medication_question(user_text_)
       THEN [reply  |-> Some(limited_response_policy(practice, user_text_)),
             state  |-> [st EXCEPT !.step = "LIMITED_RESPONSE"],
             raised |-> "none"]
    ELSE IF st.step = "LIMITED_RESPONSE"
       THEN limited_response_branch(practice, user_text_, st)
    ELSE IF st.step = "COLLECT_CONTACT"
       THEN collect_contact_branch(user_text_, st)
    ELSE [reply  |-> Some(with_team_reply(practice)),
          state  |-> st,
          raised |-> "none"]

(***************************************************************************)
(* Caller-supplied states                                                  *)
(***************************************************************************)
\* The SessionState objects a caller may hand to next_reply.
name_values == {None, Some(""), Some("Bob")}

phone_values == {None, Some("+49123456789")}

best_time_values == {None, Some("Monday at noon")}

session_states ==
    [step      : Step,
     procedure : {None, Some("cleaning")},
     intent    : {None, Some("callback")},
     collected : [name : name_values, phone : phone_values, best_time : best_time_values]]

(***************************************************************************)
(* Web layer: SESSION_DB, get_state, save_state, the two endpoints         *)
(***************************************************************************)
\* A SessionState object is named by an identifier; SESSION_DB and the local
\* variable `state' of a running webchat_message hold such identifiers, so
\* that two holders of the same object see each other's in-place writes.
\* webchat_message runs on a worker thread of the server's pool, one
\* statement at a time; next_reply is taken as one step, and a request
\* enters with its first statement, the call of get_state.
session_ids == {"a", "b"}

Threads == {1, 2}

MaxRequests == 2

ObjectIds == 1..(Cardinality(session_ids) + Cardinality(Threads))

\* The SessionState values a client sends in `state' and in `prior_state'.
sent_state ==
    [SessionState EXCEPT !.step = "COLLECT_CONTACT", !.collected.name = Some("Bob")]

sent_prior_state ==
    [SessionState EXCEPT !.step = "HANDOFF",
                         !.collected = [name      |-> Some("Bob"),
                                        phone     |-> Some("+49123456789"),
                                        best_time |-> Some("Monday at noon")]]

web_texts ==
    { "Should I take ibuprofen?",
      "i'm john, my number is 555000111, evening works",
      "call +44 20 7946 0958" }

\* IncomingMessage
payloads ==
    [session_id    : session_ids,
     user_message  : web_texts,
     practice_name : {"Example Dental Clinic"},
     prior_state   : {None, Some(sent_prior_state)},
     state         : {None, Some(sent_state)}]

\* A worker thread that handles no request.
idle == [pc |-> "idle", payload |-> None, via |-> "", state |-> None, reply |-> None]

StartWeb ==
    /\ SESSION_DB = [s \in session_ids |-> None]
    /\ heap = [o \in ObjectIds |-> None]
    /\ threads = [t \in Threads |-> idle]
    /\ response = None
    /\ received = 0

\* The objects SESSION_DB db and the threads th refer to.
Referenced(db, th) ==
    {Val(db[s]) : s \in {x \in session_ids : db[x] # None}}
       \cup {Val(th[t].state) : t \in {x \in Threads : th[x].state # None}}

\* The heap h once the objects nothing refers to are gone.
Collect(h, db, th) ==
    [o \in ObjectIds |-> IF o \in Referenced(db, th) THEN h[o] ELSE None]

\* The identifier a newly created object gets.
NewObject ==
    CHOOSE o \in ObjectIds :
        /\ heap[o] = None
        /\ \A p \in ObjectIds : heap[p] = None => o <= p

\* get_state with the stored state looked up before the payload.
get_state_stored_first(payload) ==
    IF SESSION_DB[payload.session_id] # None
       THEN [via |-> "stored", stored |-> SESSION_DB[payload.session_id], own |-> None]
    ELSE IF payload.state # None
       THEN [via |-> "state", stored |-> None, own |-> payload.state]
    ELSE IF payload.prior_state # None
       THEN [via |-> "prior_state", stored |-> None, own |-> payload.prior_state]
    ELSE [via |-> "default", stored |-> None, own |-> Some(SessionState)]

\* get_state(payload): the return statement taken (via) and the object
\* returned, either the one SESSION_DB holds (stored) or an object of the
\* payload or a new SessionState() (own).
get_state(payload) ==
    IF payload.state # None
       THEN [via |-> "state", stored |-> None, own |-> payload.state]
    ELSE IF payload.prior_state # None
       THEN [via |-> "prior_state", stored |-> None, own |-> payload.prior_state]
    ELSE IF SESSION_DB[payload.session_id] # None
       THEN [via |-> "stored", stored |-> SESSION_DB[payload.session_id], own |-> None]
    ELSE [via |-> "default", stored |-> None, own |-> Some(SessionState)]

\* save_state(session_id, state)
save_state(session_id, ref) == [SESSION_DB EXCEPT ![session_id] = ref]

\* A free thread takes a POST /webchat/message with this payload and runs
\* state = get_state(payload)
call_get_state(t, payload) ==
    /\ received < MaxRequests
    /\ threads[t].pc = "idle"
    /\ \A u \in Threads : u < t => threads[u].pc # "idle"
    /\ IF get_state(payload).stored # None
          THEN /\ threads' = [threads EXCEPT
                                 ![t] = [idle EXCEPT !.pc = "next_reply",
                                                     !.payload = Some(payload),
                                                     !.via = get_state(payload).via,
                                                     !.state = get_state(payload).stored]]
               /\ heap' = heap
          ELSE /\ threads' = [threads EXCEPT
                                 ![t] = [idle EXCEPT !.pc = "next_reply",
                                                     !.payload = Some(payload),
                                                     !.via = get_state(payload).via,
                                                     !.state = Some(NewObject)]]
               /\ heap' = [heap EXCEPT ![NewObject] = get_state(payload).own]
    /\ received' = received + 1
    /\ response' = None
    /\ UNCHANGED SESSION_DB
    /\ UNCHANGED dialogue_vars

\* The call of next_reply by thread t on the object it holds.
turn_of(t) ==
    next_reply(Val(threads[t].payload).practice_name,
               Val(threads[t].payload).user_message,
               Val(heap[Val(threads[t].state)]))

\* The response to a request: status 200 with the body, or status 500.
Response(endpoint, status, session_id, reply_, state_) ==
    Some([endpoint |-> endpoint, status |-> status, session_id |-> session_id,
          reply |-> reply_, state |-> state_])

\* The threads once thread t has finished its request.
finished(t) == [threads EXCEPT ![t] = idle]

\* reply, new_state = next_reply(payload.practice_name, payload.user_message, state)
\* The object is written in place; an exception leaves webchat_message and
\* the server answers 500.
call_next_reply(t) ==
    /\ threads[t].pc = "next_reply"
    /\ IF turn_of(t).raised = "none"
          THEN /\ threads' = [threads EXCEPT ![t].pc = "save_state",
                                             ![t].reply = turn_of(t).reply]
               /\ heap' = [heap EXCEPT ![Val(threads[t].state)] = Some(turn_of(t).state)]
               /\ response' = None
          ELSE /\ threads' = finished(t)
               /\ heap' = Collect([heap EXCEPT ![Val(threads[t].state)] = Some(turn_of(t).state)],
                                  SESSION_DB, finished(t))
               /\ response' = Response("webchat_message", 500,
                                       Val(threads[t].payload).session_id, None, None)
    /\ UNCHANGED <<SESSION_DB, received>>
    /\ UNCHANGED dialogue_vars

\* save_state(payload.session_id, new_state)
call_save_state(t) ==
    /\ threads[t].pc = "save_state"
    /\ SESSION_DB' = save_state(Val(threads[t].payload).session_id, threads[t].state)
    /\ threads' = [threads EXCEPT ![t].pc = "return"]
    /\ heap' = Collect(heap, save_state(Val(threads[t].payload).session_id, threads[t].state),
                       threads)
    /\ response' = None
    /\ UNCHANGED received
    /\ UNCHANGED dialogue_vars

\* return OutgoingMessage(..., reply=reply, state=new_state)
return_message(t) ==
    /\ threads[t].pc = "return"
    /\ response' = Response("webchat_message", 200, Val(threads[t].payload).session_id,
                            threads[t].reply, heap[Val(threads[t].state)])
    /\ threads' = finished(t)
    /\ heap' = Collect(heap, SESSION_DB, finished(t))
    /\ UNCHANGED <<SESSION_DB, received>>
    /\ UNCHANGED dialogue_vars

\* reset_session with `del SESSION_DB[session_id]': KeyError when absent.
reset_session_del(session_id) ==
    /\ IF SESSION_DB[session_id] = None
          THEN /\ SESSION_DB' = SESSION_DB
               /\ response' = Response("reset_session", 500, session_id, None, None)
          ELSE /\ SESSION_DB' = [SESSION_DB EXCEPT ![session_id] = None]
               /\ response' = Response("reset_session", 200, session_id, None, None)
    /\ heap' = Collect(heap, [SESSION_DB EXCEPT ![session_id] = None], threads)
    /\ UNCHANGED <<threads, received>>
    /\ UNCHANGED dialogue_vars

\* SESSION_DB.pop(session_id, None); return {"ok": True, "session_id": session_id}
reset_session(session_id) ==
    /\ SESSION_DB' = [SESSION_DB EXCEPT ![session_id] = None]
    /\ response' = Response("reset_session", 200, session_id, None, None)
    /\ heap' = Collect(heap, [SESSION_DB EXCEPT ![session_id] = None], threads)
    /\ UNCHANGED <<threads, received>>
    /\ UNCHANGED dialogue_vars

(***************************************************************************)
(* One dialogue turn on a session's state object                           *)
(***************************************************************************)
Start(st) ==
    /\ state = st
    /\ prior = st
    /\ reply = None
    /\ prior_reply = None
    /\ raised = "none"
    /\ user_text = None
    /\ practice_name = None

\* A fresh session: SessionState()
Init == Start(SessionState) /\ StartWeb

\* Any well-formed SessionState
InitAny == (\E st \in session_states : Start(st)) /\ StartWeb

\* reply, new_state = next_reply(practice_name, user_message, state)
Turn(practice, text) ==
    /\ state' = next_reply(practice, text, state).state
    /\ reply' = next_reply(practice, text, state).reply
    /\ raised' = next_reply(practice, text, state).raised
    /\ prior' = state
    /\ prior_reply' = reply
    /\ user_text' = Some(text)
    /\ practice_name' = Some(practice)
    /\ UNCHANGED web_vars

Next == \E practice \in practice_names, text \in user_texts : Turn(practice, text)

Spec == Init /\ [][Next]_vars

SpecAny == InitAny /\ [][Next]_vars

\* Turns of a fresh session on the messages written for the policy gate.
NextGate == \E practice \in practice_names, text \in gate_texts : Turn(practice, text)

SpecGate == Init /\ [][NextGate]_vars

\* The web layer: requests arrive, threads advance, sessions are reset.
NextWeb ==
    \/ \E t \in Threads, payload \in payloads : call_get_state(t, payload)
    \/ \E t \in Threads : call_next_reply(t)
    \/ \E t \in Threads : call_save_state(t)
    \/ \E t \in Threads : return_message(t)
    \/ \E session_id \in session_ids : reset_session(session_id)

SpecWeb == Init /\ [][NextWeb]_vars

(***************************************************************************)
(* Vocabulary of the properties                                            *)
(***************************************************************************)
\* A turn has been taken; user_text and practice_name are its inputs,
\* prior the state it started from, state/reply/raised what it left.
Acted == user_text # None

Gated == Acted /\ is_medical_or_medication_question(Val(user_text))

NotGated == Acted /\ ~is_medical_or_medication_question(Val(user_text))

Disclaimer == Some(limited_response_policy(Val(practice_name), Val(user_text)))

AllCollected(st) ==
    /\ Truthy(st.collected.name)
    /\ Truthy(st.collected.phone)
    /\ Truthy(st.collected.best_time)

Collecting(st) == st.step \in {"LIMITED_RESPONSE", "COLLECT_CONTACT"}

\* The labels of the fields of st that are still empty, in the fixed order.
MissingLabels(st) ==
    (IF Truthy(st.collected.name) THEN << >> ELSE <<"name">>)
    \o (IF Truthy(st.collected.phone) THEN << >> ELSE <<"phone number">>)
    \o (IF Truthy(st.collected.best_time) THEN << >> ELSE <<"best time to call">>)

\* The reply returned echoes the three collected fields of state.
ReplyEchoesContact ==
    /\ reply # None
    /\ Contains(Val(state.collected.name), Val(reply))
    /\ Contains(Val(state.collected.phone), Val(reply))
    /\ Contains(Val(state.collected.best_time), Val(reply))

(***************************************************************************)
(* C1                                                                      *)
(***************************************************************************)
\* C1: whatever the current step and the collected fields, a turn on which
\* the policy gate fires returns normally with step = LIMITED_RESPONSE and
\* exactly the disclaimer as its reply.
PolicyPrecedence ==
    Gated => /\ raised = "none"
             /\ state.step = "LIMITED_RESPONSE"
             /\ reply = Disclaimer

\* A gated turn taken in HANDOFF with all fields collected.
PolicyPrecedenceWitness ==
    /\ Gated
    /\ prior.step = "HANDOFF"
    /\ AllCollected(prior)
    /\ state.step = "LIMITED_RESPONSE"
    /\ reply = Disclaimer

(***************************************************************************)
(* C2                                                                      *)
(***************************************************************************)
\* C2: next_reply is total: no turn, on any text and any well-formed
\* state, raises an error.
NextReplyTotal == raised = "none"

(***************************************************************************)
(* C3                                                                      *)
(***************************************************************************)
\* C3: from a fresh session, step = HANDOFF only with name, phone and
\* best_time all non-empty; step becomes HANDOFF only on a non-gated turn
\* that leaves all three non-empty, and step goes back to LIMITED_RESPONSE
\* only on a turn on which the gate fires.
HandoffOnlyWhenCollected ==
    /\ state.step = "HANDOFF" => AllCollected(state)
    /\ (state.step = "HANDOFF" /\ prior.step # "HANDOFF")
          => (NotGated /\ raised = "none" /\ AllCollected(state))
    /\ (state.step = "LIMITED_RESPONSE" /\ prior.step # "LIMITED_RESPONSE")
          => Gated

\* A non-gated turn that moved a session from LIMITED_RESPONSE to HANDOFF.
HandoffOnlyWhenCollectedWitness ==
    /\ NotGated
    /\ prior.step = "LIMITED_RESPONSE"
    /\ ~AllCollected(prior)
    /\ state.step = "HANDOFF"

(***************************************************************************)
(* C4                                                                      *)
(***************************************************************************)
\* C4: a collected field that is non-empty before a turn has the same value
\* after it, whatever the text and the step.
CollectedMonotonic ==
    /\ Truthy(prior.collected.name)
          => state.collected.name = prior.collected.name
    /\ Truthy(prior.collected.phone)
          => state.collected.phone = prior.collected.phone
    /\ Truthy(prior.collected.best_time)
          => state.collected.best_time = prior.collected.best_time

\* A non-gated collecting turn whose text carries another phone number,
\* another time phrase and another name than the ones already collected.
CollectedMonotonicWitness ==
    /\ NotGated
    /\ Collecting(prior)
    /\ AllCollected(prior)
    /\ scan(Val(user_text)).ndigits >= MinPhoneDigits
    /\ Some(scan(Val(user_text)).digits) # prior.collected.phone
    /\ scan(Val(user_text)).has_time
    /\ Some(scan(Val(user_text)).text) # prior.collected.best_time
    /\ Truthy(scan(Val(user_text)).name.name)
    /\ scan(Val(user_text)).name.name # prior.collected.name
    /\ state.collected = prior.collected

(***************************************************************************)
(* C5                                                                      *)
(***************************************************************************)
\* C5: a non-gated turn taken in LIMITED_RESPONSE or COLLECT_CONTACT that
\* leaves a field empty returns with step = COLLECT_CONTACT and a reply
\* listing the missing items joined by ", ".
CollectContactWhenMissing ==
    (NotGated /\ Collecting(prior) /\ ~AllCollected(state))
       => /\ raised = "none"
          /\ state.step = "COLLECT_CONTACT"
          /\ reply # None
          /\ Contains(Join(", ", MissingLabels(state)), Val(reply))

(***************************************************************************)
(* C6                                                                      *)
(***************************************************************************)
\* C6: a non-gated turn taken in LIMITED_RESPONSE or COLLECT_CONTACT after
\* whose extraction name, phone and best_time are all non-empty sets
\* step = HANDOFF and returns a reply echoing the three values.
HandoffWhenCollected ==
    (NotGated /\ Collecting(prior) /\ AllCollected(state))
       => /\ raised = "none"
          /\ state.step = "HANDOFF"
          /\ ReplyEchoesContact

\* Such a turn taken in COLLECT_CONTACT, the last field filled by its text.
HandoffWhenCollectedWitness ==
    /\ NotGated
    /\ prior.step = "COLLECT_CONTACT"
    /\ ~AllCollected(prior)
    /\ AllCollected(state)
    /\ state.step = "HANDOFF"
    /\ ReplyEchoesContact

(***************************************************************************)
(* C7                                                                      *)
(***************************************************************************)
\* C7: a non-gated turn taken in HANDOFF extracts nothing and returns the
\* state unchanged, with the fixed 'your request is with the team' reply.
HandoffTurnUnchanged ==
    (NotGated /\ prior.step = "HANDOFF")
       => /\ raised = "none"
          /\ state = prior
          /\ reply = Some(with_team_reply(Val(practice_name)))

\* Such a turn whose text carries a phone number, a time phrase and a name
\* while the three fields are unset.
HandoffTurnUnchangedWitness ==
    /\ NotGated
    /\ prior.step = "HANDOFF"
    /\ prior.collected = Collected
    /\ scan(Val(user_text)).ndigits >= MinPhoneDigits
    /\ scan(Val(user_text)).has_time
    /\ Truthy(scan(Val(user_text)).name.name)
    /\ state = prior

(***************************************************************************)
(* C8                                                                      *)
(***************************************************************************)
\* C8: a gated turn changes nothing in the state but step: the collected
\* fields, procedure and intent keep their values, whatever the text holds.
GatedTurnFrame ==
    Gated => /\ state.collected = prior.collected
             /\ state.procedure = prior.procedure
             /\ state.intent = prior.intent

\* A gated turn whose text carries a phone number and a time phrase while
\* those fields are unset, on a state with procedure and intent set.
GatedTurnFrameWitness ==
    /\ Gated
    /\ prior.collected.phone = None
    /\ prior.collected.best_time = None
    /\ prior.procedure # None
    /\ prior.intent # None
    /\ scan(Val(user_text)).ndigits >= MinPhoneDigits
    /\ scan(Val(user_text)).has_time
    /\ state.collected = prior.collected

(***************************************************************************)
(* C9, C10: what a message supplies                                        *)
(***************************************************************************)
\* The text that follows the end of pattern pat, located in the lower-cased
\* text and taken from the original text at the same offset, trimmed.
AfterPattern(text, pat) ==
    Strip(SubSeq(text, FindFrom(pat, Lower(text), 1) + Len(pat), Len(text)))

\* The positions in s at which one of the four delimiters begins.
StopPositions(s) ==
    {FindFrom(name_stops[k], s, 1) : k \in 1..Len(name_stops)} \ {0}

\* s up to its leftmost delimiter, trimmed.
UpToFirstStop(s) ==
    IF StopPositions(s) = {} THEN s
    ELSE Strip(SubSeq(s, 1, (CHOOSE i \in StopPositions(s) :
                                \A j \in StopPositions(s) : i <= j) - 1))

\* The first pattern, in the listed order, that occurs in the lower-cased text.
FirstPattern(text) ==
    name_patterns[CHOOSE k \in 1..Len(name_patterns) :
                     /\ Contains(name_patterns[k], Lower(text))
                     /\ \A j \in 1..(k - 1) : ~Contains(name_patterns[j], Lower(text))]

\* The name a message declares after a name pattern, None when it has none.
DeclaredName(text) ==
    IF \A k \in 1..Len(name_patterns) : ~Contains(name_patterns[k], Lower(text))
       THEN None
       ELSE Some(UpToFirstStop(AfterPattern(text, FirstPattern(text))))

declared_table == [text \in user_texts |-> DeclaredName(Strip(text))]

\* The message supplies a name through a name pattern, a phone number of
\* at least 9 digits and a time phrase.
SuppliesContact(text) ==
    /\ declared_table[text] # None
    /\ Len(Val(declared_table[text])) >= MinNameLen
    /\ scan(text).ndigits >= MinPhoneDigits
    /\ scan(text).has_time

\* The previous turn was answered with the disclaimer.
PriorGated ==
    \E practice \in practice_names :
        prior_reply = Some(limited_response_policy(practice, ""))

(***************************************************************************)
(* C9                                                                      *)
(***************************************************************************)
\* C9: on a fresh session a gated first message yields the disclaimer with
\* step = LIMITED_RESPONSE, and a following non-gated message that supplies
\* a name through a name pattern, a phone number of at least 9 digits and a
\* time phrase moves step to HANDOFF, with a reply that references the
\* captured name, phone and best time.
EndToEndHandoff ==
    /\ (prior = SessionState /\ Gated)
          => /\ raised = "none"
             /\ reply = Disclaimer
             /\ state.step = "LIMITED_RESPONSE"
    /\ (prior = SessionState /\ PriorGated /\ NotGated
           /\ SuppliesContact(Val(user_text)))
          => /\ raised = "none"
             /\ state.step = "HANDOFF"
             /\ ReplyEchoesContact

(***************************************************************************)
(* C10                                                                     *)
(***************************************************************************)
\* C10: from step = LIMITED_RESPONSE with all fields empty, one non-gated
\* message holding a name pattern in any letter case followed by a name, at
\* least 9 digits and a time phrase leaves name = the original text after
\* the pattern up to the first delimiter, phone = the digits and '+' of the
\* message in their order, best_time = the trimmed message, step = HANDOFF,
\* and returns a reply containing the name.
SingleTurnCompletion ==
    (prior = SessionState /\ NotGated /\ SuppliesContact(Val(user_text)))
       => /\ raised = "none"
          /\ state.collected.name = declared_table[Val(user_text)]
          /\ state.collected.phone = Some(DigitsFrom(Val(user_text), 1))
          /\ state.collected.best_time = Some(Strip(Val(user_text)))
          /\ state.step = "HANDOFF"
          /\ reply # None
          /\ Contains(Val(state.collected.name), Val(reply))

(***************************************************************************)
(* C11                                                                     *)
(***************************************************************************)
\* The list `missing' as next_reply holds it when it reaches `if missing:'
\* on the turn just taken, and the exception raised while building it.
MissingOfTurn ==
    compute_missing(update_collected_from_text(prior, Val(user_text)).state)

\* C11: on every non-gated turn taken in LIMITED_RESPONSE or COLLECT_CONTACT
\* next_reply computes the list of missing items, and the list holds the
\* labels of the fields still empty in the fixed order name, phone number,
\* best time to call; with only best_time known it is <<name, phone number>>.
MissingInFixedOrder ==
    (NotGated /\ Collecting(prior) /\ raised # "IndexError")
       => /\ MissingOfTurn.raised = "none"
          /\ MissingOfTurn.list = MissingLabels(state)

(***************************************************************************)
(* C15                                                                     *)
(***************************************************************************)
\* The word k occurs in s at some position, letter case of s ignored.
OccursAnyCase(k, s) ==
    \E i \in 1..(Len(s) - Len(k) + 1) :
        \A j \in 1..Len(k) : LowerChar(Char(s, i + j - 1)) = Char(k, j)

\* Some keyword of the list occurs in s, letter case of s ignored.
KeywordOccurs(s) == \E k \in 1..Len(keywords) : OccursAnyCase(keywords[k], s)

\* C15: the gate classifies a message as medical exactly when some keyword
\* occurs in it as a substring, letter case ignored and word boundaries not
\* considered: every message holding "antibiotics" in any letter case is
\* classified medical, every message holding no keyword is not.
GateClassification ==
    Acted =>
       /\ is_medical_or_medication_question(Val(user_text))
             <=> KeywordOccurs(Val(user_text))
       /\ OccursAnyCase("antibiotics", Val(user_text))
             => is_medical_or_medication_question(Val(user_text))
       /\ is_medical_or_medication_question(Val(user_text)) <=> (reply = Disclaimer)

\* A message holding "antibiotics" inside a longer word and not in lower
\* case was answered with the disclaimer.
GateClassificationWitness ==
    /\ Acted
    /\ OccursAnyCase("antibiotics", Val(user_text))
    /\ ~Contains("antibiotics", Val(user_text))
    /\ Contains("ish", Val(user_text))
    /\ reply = Disclaimer

(***************************************************************************)
(* C16                                                                     *)
(***************************************************************************)
\* C16: in every state reached from a fresh session the name is unset or a
\* string of 2 to 80 characters, and a turn whose message declares, up to
\* its first delimiter, a name of fewer than 2 characters leaves the name
\* unset.
NameLengthChecked ==
    /\ state.collected.name # None
          => /\ Len(Val(state.collected.name)) >= MinNameLen
             /\ Len(Val(state.collected.name)) <= MaxNameLen
    /\ (/\ NotGated
        /\ Collecting(prior)
        /\ prior.collected.name = None
        /\ declared_table[Val(user_text)] # None
        /\ Len(Val(declared_table[Val(user_text)])) < MinNameLen)
          => state.collected.name = None

(***************************************************************************)
(* C17                                                                     *)
(***************************************************************************)
\* C17: a name stored by a turn is the text that follows the matched
\* pattern, cut before the leftmost occurrence of any of the four
\* delimiters, trimmed, and limited to its first 80 characters.
NameCutAtFirstStop ==
    (/\ NotGated
     /\ Collecting(prior)
     /\ prior.collected.name = None
     /\ state.collected.name # None)
       => state.collected.name
             = Some(Prefix(Val(declared_table[Val(user_text)]), MaxNameLen))

(***************************************************************************)
(* C18                                                                     *)
(***************************************************************************)
\* The field counts as missing for next_reply but is no longer None, so
\* that update_collected_from_text does not write it any more.
Unfillable(field) == field # None /\ ~Truthy(field)

\* C18: in every state reached from a fresh session no field counts as
\* missing while extraction can no longer write it, and while the session
\* is collecting, some non-gated message that supplies a name of at least
\* 2 characters through a name pattern, at least 9 digits and a time
\* phrase brings it to HANDOFF in one turn.
HandoffStaysReachable ==
    /\ ~Unfillable(state.collected.name)
    /\ ~Unfillable(state.collected.phone)
    /\ ~Unfillable(state.collected.best_time)
    /\ Collecting(state)
          => \E practice \in practice_names, text \in user_texts :
                /\ ~is_medical_or_medication_question(text)
                /\ SuppliesContact(text)
                /\ next_reply(practice, text, state).state.step = "HANDOFF"

(***************************************************************************)
(* Vocabulary of the web-layer properties                                  *)
(***************************************************************************)
\* The SessionState stored for session_id in store db over heap h, None
\* when db holds none.
StoredIn(db, h, session_id) ==
    IF db[session_id] = None THEN None ELSE h[Val(db[session_id])]

StoredState(session_id) == StoredIn(SESSION_DB, heap, session_id)

\* The payload of the request thread t is handling.
PayloadOf(t) == Val(threads[t].payload)

\* The payload of the request thread t is handling after the step.
PayloadOfNext(t) == Val(threads'[t].payload)

\* The request of thread t carries neither state nor prior_state.
ReadsStore(t) == PayloadOf(t).state = None /\ PayloadOf(t).prior_state = None

\* The session_id of the request of which thread t takes a step.
SessionOfStep(t) ==
    IF threads[t].payload # None THEN PayloadOf(t).session_id
                                 ELSE PayloadOfNext(t).session_id

\* Thread t takes the step that leads it from statement `from' to `to'.
Steps(t, from, to) == threads[t].pc = from /\ threads'[t].pc = to

(***************************************************************************)
(* C12                                                                     *)
(***************************************************************************)
\* The state the store holds for the session when the request of thread
\* `first' and then the request of thread `second' are handled one after
\* the other, starting with no stored state: the second turn runs on the
\* object the first one stored.
SerialOutcome(first, second) ==
    next_reply(PayloadOf(second).practice_name, PayloadOf(second).user_message,
               next_reply(PayloadOf(first).practice_name, PayloadOf(first).user_message,
                          SessionState).state).state

\* C12: two requests for one session_id are serialized: when both found no
\* stored state, one has saved its state and the other is about to save
\* its own, the state that ends up stored is the one that handling the two
\* requests one after the other, in one order or the other, produces.
PerSessionSerialized ==
    \A t \in Threads, u \in Threads :
        (/\ threads[t].pc = "save_state"
         /\ threads[u].pc = "return"
         /\ PayloadOf(t).session_id = PayloadOf(u).session_id
         /\ threads[t].via = "default"
         /\ threads[u].via = "default"
         /\ SESSION_DB[PayloadOf(u).session_id] = threads[u].state)
           => \/ heap[Val(threads[t].state)] = Some(SerialOutcome(u, t))
              \/ heap[Val(threads[t].state)] = Some(SerialOutcome(t, u))

(***************************************************************************)
(* C13                                                                     *)
(***************************************************************************)
\* The object thread t holds after get_state is the one the precedence
\* state, prior_state, stored, default gives; an object taken from the
\* payload or newly defaulted is not an object of the store.
ResolvedByPrecedence(t) ==
    IF PayloadOfNext(t).state # None
       THEN /\ heap'[Val(threads'[t].state)] = PayloadOfNext(t).state
            /\ \A s \in session_ids : SESSION_DB[s] # threads'[t].state
    ELSE IF PayloadOfNext(t).prior_state # None
       THEN /\ heap'[Val(threads'[t].state)] = PayloadOfNext(t).prior_state
            /\ \A s \in session_ids : SESSION_DB[s] # threads'[t].state
    ELSE IF SESSION_DB[PayloadOfNext(t).session_id] # None
       THEN /\ threads'[t].state = SESSION_DB[PayloadOfNext(t).session_id]
            /\ heap' = heap
    ELSE /\ heap'[Val(threads'[t].state)] = Some(SessionState)
         /\ \A s \in session_ids : SESSION_DB[s] # threads'[t].state

\* C13: the state a turn runs on is the payload's state if present, else
\* the payload's prior_state if present, else the state stored for the
\* session_id if there is one, else a new SessionState(); the stored state
\* is not used when the payload carries state or prior_state.
StateResolution ==
    [][\A t \in Threads :
          Steps(t, "idle", "next_reply") => ResolvedByPrecedence(t)]_vars

\* A request that carries both state and prior_state, for a session that
\* has another state stored, is about to run next_reply on the payload's
\* state.
StateResolutionWitness ==
    \E t \in Threads :
        /\ threads[t].pc = "next_reply"
        /\ PayloadOf(t).state # None
        /\ PayloadOf(t).prior_state # None
        /\ PayloadOf(t).state # PayloadOf(t).prior_state
        /\ StoredState(PayloadOf(t).session_id) # None
        /\ StoredState(PayloadOf(t).session_id) # PayloadOf(t).state
        /\ SESSION_DB[PayloadOf(t).session_id] # threads[t].state
        /\ heap[Val(threads[t].state)] = PayloadOf(t).state

FailureAtomic ==
    [][\A t \in Threads :
          Steps(t, "next_reply", "idle")
             => StoredIn(SESSION_DB', heap', PayloadOf(t).session_id)
                   = StoredState(PayloadOf(t).session_id)]_vars

(***************************************************************************)
(* C20                                                                     *)
(***************************************************************************)
\* C20: no step of a webchat_message request and no reset_session changes
\* the state stored for another session_id than its own, and when a
\* request returns its message, the state stored for its session_id is the
\* state of the response.
SessionIsolation ==
    [][/\ \A t \in Threads :
             threads'[t] # threads[t]
                => \A b \in session_ids \ {SessionOfStep(t)} :
                      StoredIn(SESSION_DB', heap', b) = StoredState(b)
       /\ \A s \in session_ids :
             reset_session(s)
                => \A b \in session_ids \ {s} :
                      StoredIn(SESSION_DB', heap', b) = StoredState(b)
       /\ \A t \in Threads :
             Steps(t, "return", "idle")
                => StoredIn(SESSION_DB', heap', PayloadOf(t).session_id)
                      = Val(response').state]_vars

====
